---- MODULE Spec2Model ----
(***************************************************************************)
(* A model of gan.py: the Gan base class (construction, scoped teardown,   *)
(* train / sample / train_mixture_discriminator, _run_batch), the concrete *)
(* variants ToyGan, ImageGan and UnrolledGan, and                          *)
(* UnrolledGan.extract_update_dict.                                        *)
(***************************************************************************)
EXTENDS Integers, Sequences, FiniteSets, TLC

VARIABLES
    rb,        \* the last _run_batch call: its arguments and its outcome
    m,         \* the model instance: the fields of Gan and its lifecycle
    env,       \* the caller's side: configuration, dataset, managed block
    last,      \* the last public operation invoked and its outcome
    ex,        \* the last extract_update_dict call and its outcome
    un,        \* the generator loss UnrolledGan builds from the update ops
    two        \* two model instances in one process and the default graph

vars == <<rb, m, env, last, ex, un, two>>

(***************************************************************************)
(* Bounds of the model.                                                    *)
(***************************************************************************)
MaxRows == 4
MaxBatch == 3
MaxVal == 1

RowVals == 0..MaxVal

Min(a, b) == IF a < b THEN a ELSE b

(***************************************************************************)
(* Handles that may be used as keys of a feed_dict.  A tf.placeholder is a *)
(* graph tensor; None and the Python constant True are not.                *)
(***************************************************************************)
Placeholder(n) == [kind |-> "placeholder", name |-> n]
PyNone == [kind |-> "none", name |-> "None"]
PyTrue == [kind |-> "bool", name |-> "True"]

(***************************************************************************)
(* numpy arrays.  An array is its rank and the per-point values along the  *)
(* first dimension; the trailing dimensions of one point are abstracted    *)
(* into its value.                                                         *)
(***************************************************************************)
Array(r, d) == [rank |-> r, data |-> d]
NoArray == Array(0, <<>>)

\* feed[lo:hi] and feed[lo:] of Python, indices from 0, clipped at the end.
Slice(feed, lo, hi) == SubSeq(feed, Min(lo, Len(feed)) + 1, Min(hi, Len(feed)))
SliceFrom(feed, lo) == SubSeq(feed, Min(lo, Len(feed)) + 1, Len(feed))

\* int(np.ceil((num_points + 0.) / batch_size)), batch_size >= 1.
BatchesNumFloor(num_points, batch_size) == num_points \div batch_size
BatchesNum(num_points, batch_size) == (num_points + batch_size - 1) \div batch_size

\* The feed_dict built for one chunk: one key, or two when feed2 is given.
FeedDict(placeholder, chunk, placeholder2, feed2) ==
    IF feed2 = "None"
    THEN << <<placeholder, chunk>> >>
    ELSE << <<placeholder, chunk>>, <<placeholder2, feed2>> >>

FedNames(fd) == {fd[i][1].name : i \in 1..Len(fd)}

\* The value fed for the placeholder called n (the first key with that name).
FedValue(fd, n) ==
    LET i == CHOOSE j \in 1..Len(fd) : fd[j][1].name = n /\ \A k \in 1..(j - 1) : fd[k][1].name # n
    IN  fd[i][2]

(***************************************************************************)
(* session.run(operation, feed_dict).  An operation is applied pointwise:  *)
(* operation.map to every row fed for operation.input.  The engine rejects *)
(* a key that is no tensor of the graph and an operation whose             *)
(* placeholders are not all fed.                                           *)
(***************************************************************************)
SessionRun(operation, fd) ==
    IF \E i \in 1..Len(fd) : fd[i][1].kind # "placeholder"
    THEN [exc |-> "TypeError", val |-> NoArray]
    ELSE IF ~(operation.deps \subseteq FedNames(fd))
    THEN [exc |-> "InvalidArgumentError", val |-> NoArray]
    ELSE LET x == FedValue(fd, operation.input)
         IN  [exc |-> "none",
              val |-> Array(operation.rank, [i \in 1..Len(x) |-> operation.map[x[i]]])]

\* np.reshape(res, [-1, 1]) when len(res.shape) == 1: (n,) becomes (n,1).
Reshape(res) == IF res.rank = 1 THEN Array(2, res.data) ELSE res

RECURSIVE Concat(_)
Concat(arrays) ==
    IF arrays = <<>> THEN <<>> ELSE Head(arrays).data \o Concat(Tail(arrays))

\* np.vstack(result): needs at least one array; stacks along the first axis.
VStackEmptyOk(result) ==
    IF result = <<>>
    THEN [exc |-> "none", val |-> Array(2, <<>>)]
    ELSE [exc |-> "none", val |-> Array(Head(result).rank, Concat(result))]
VStack(result) ==
    IF result = <<>>
    THEN [exc |-> "ValueError", val |-> NoArray]
    ELSE [exc |-> "none", val |-> Array(Head(result).rank, Concat(result))]

\* The slice of the feed that chunk idx receives.
ChunkToEnd(feed, idx, batches_num, batch_size) == SliceFrom(feed, idx * batch_size)
Chunk(feed, idx, batches_num, batch_size) ==
    IF idx = batches_num - 1
    THEN SliceFrom(feed, idx * batch_size)
    ELSE Slice(feed, idx * batch_size, (idx + 1) * batch_size)

(***************************************************************************)
(* Gan._run_batch.  a carries the arguments; the loop runs idx over        *)
(* xrange(batches_num), result collects the chunk results and evals the    *)
(* chunks handed to session.run.                                           *)
(***************************************************************************)
RECURSIVE RunBatchLoop(_, _, _, _, _)
RunBatchLoop(a, idx, batches_num, result, evals) ==
    IF idx >= batches_num
    THEN LET stacked == VStack(result)
         IN  IF stacked.exc # "none"
             THEN [exc |-> stacked.exc, val |-> NoArray, evals |-> evals]
             ELSE IF Len(stacked.val.data) # Len(a.feed)
             THEN [exc |-> "AssertionError", val |-> NoArray, evals |-> evals]
             ELSE [exc |-> "none", val |-> stacked.val, evals |-> evals]
    ELSE LET chunk == Chunk(a.feed, idx, batches_num, a.batch_size)
             res == SessionRun(a.operation,
                               FeedDict(a.placeholder, chunk, a.placeholder2, a.feed2))
         IN  IF res.exc # "none"
             THEN [exc |-> res.exc, val |-> NoArray, evals |-> Append(evals, chunk)]
             ELSE RunBatchLoop(a, idx + 1, batches_num,
                               Append(result, Reshape(res.val)), Append(evals, chunk))

\* feed_ndim is len(feed.shape); a 0-d feed fails the assert of line 104.
RunBatch(a) ==
    IF ~(a.feed_ndim > 0)
    THEN [exc |-> "AssertionError", val |-> NoArray, evals |-> <<>>]
    ELSE RunBatchLoop(a, 0, BatchesNum(Len(a.feed), a.batch_size), <<>>, <<>>)

RunBatchArgs(operation, placeholder, feed, ndim, batch_size, placeholder2, feed2) ==
    [operation |-> operation, placeholder |-> placeholder, feed |-> feed,
     feed_ndim |-> ndim, batch_size |-> batch_size,
     placeholder2 |-> placeholder2, feed2 |-> feed2]

\* The unchunked evaluation: one session.run on the whole feed.
Unchunked(a) ==
    SessionRun(a.operation, FeedDict(a.placeholder, a.feed, a.placeholder2, a.feed2)).val

(***************************************************************************)
(* _run_batch on its own: the feed, the chunk size, the computation and    *)
(* the optional second placeholder are the caller's.                       *)
(***************************************************************************)
RECURSIVE SeqsUpTo(_, _)
SeqsUpTo(S, n) ==
    IF n = 0 THEN {<<>>}
    ELSE LET shorter == SeqsUpTo(S, n - 1)
         IN  shorter \cup {Append(s, v) : s \in {t \in shorter : Len(t) = n - 1}, v \in S}

PointwiseOps ==
    {[name |-> "f", input |-> "x", deps |-> {"x"}, rank |-> r, map |-> f] :
        r \in {1, 2}, f \in [RowVals -> RowVals]}

NoCall ==
    [called |-> FALSE,
     args |-> RunBatchArgs([name |-> "f", input |-> "x", deps |-> {"x"}, rank |-> 2,
                            map |-> [v \in RowVals |-> v]],
                           Placeholder("x"), <<>>, 1, 1, PyNone, "None"),
     out |-> [exc |-> "none", val |-> NoArray, evals |-> <<>>]]

RunBatchCall ==
    /\ ~rb.called
    /\ \E operation \in PointwiseOps, feed \in SeqsUpTo(RowVals, MaxRows),
          ndim \in {0, 1, 2}, batch_size \in 1..MaxBatch, feed2 \in {"None", "False"} :
          /\ ndim = 0 => feed = <<>>
          /\ LET a == RunBatchArgs(operation, Placeholder("x"), feed, ndim, batch_size,
                                   IF feed2 = "None" THEN PyNone ELSE Placeholder("is_train"),
                                   feed2)
             IN  rb' = [called |-> TRUE, args |-> a, out |-> RunBatch(a)]
    /\ UNCHANGED <<m, env, last, ex, un, two>>

(***************************************************************************)
(* Failures, named by the Python exception and the message the code gives. *)
(***************************************************************************)
ExcNoBuild == "AssertionError: Gan base class has no build_model method defined."
ExcNoTrain == "AssertionError: Gan base class has no train method defined."
ExcNoSample == "AssertionError: Gan base class has no sample method defined."
ExcNoMixture == "AssertionError: Gan base class has no mixture discriminator method defined."
ExcUntrained == "AssertionError: Can not sample from the un-trained GAN"
ExcEngine == "EngineError"

NotImplementedExcs == {ExcNoBuild, ExcNoTrain, ExcNoSample, ExcNoMixture}

(***************************************************************************)
(* Bounds of the lifecycle model.                                          *)
(***************************************************************************)
MaxPoints == 2
MaxNum == 2
MaxEpochs == 1

Variants == {"Gan", "ToyGan", "ImageGan", "UnrolledGan"}

Repeat(e, k) == [i \in 1..k |-> e]
Iota(n) == [i \in 1..n |-> i]

\* The concatenation of seqs[lo..hi], by halves.
RECURSIVE Flatten(_, _, _)
Flatten(seqs, lo, hi) ==
    IF lo > hi THEN <<>>
    ELSE IF lo = hi THEN seqs[lo]
    ELSE LET mid == (lo + hi) \div 2
         IN  Flatten(seqs, lo, mid) \o Flatten(seqs, mid + 1, hi)

(***************************************************************************)
(* The graph each variant builds.  _is_training_ph is None in Gan and      *)
(* ToyGan, a tf.placeholder in ImageGan and the constant True in           *)
(* UnrolledGan; the operations depend on the placeholders they were built  *)
(* from.                                                                   *)
(***************************************************************************)
IsTrainingPh(variant) ==
    CASE variant = "ImageGan" -> Placeholder("is_train")
      [] variant = "UnrolledGan" -> PyTrue
      [] OTHER -> PyNone

ModeDeps(variant) == IF variant = "ImageGan" THEN {"is_train"} ELSE {}

\* The placeholders an operation of the graph reads.
OpDeps(variant, name) ==
    CASE name = "G" -> {"noise"} \cup ModeDeps(variant)
      [] name = "d_optim" -> {"real_points", "noise"} \cup ModeDeps(variant)
      [] name = "g_optim" ->
            (IF variant = "UnrolledGan" THEN {"real_points", "noise"} ELSE {"noise"})
            \cup ModeDeps(variant)
      [] name = "c_optim" -> {"real_points", "fake_points"} \cup ModeDeps(variant)
      [] name = "c_training" -> {"real_points"} \cup ModeDeps(variant)

\* A network output as a pointwise operation over n points; the value the
\* network computes for point x is named by x.
GraphOp(variant, name, input, n) ==
    [name |-> name, input |-> input, deps |-> OpDeps(variant, name), rank |-> 2,
     map |-> [x \in 1..n |-> x]]

\* The keys of the feed_dict of one parameter update.
UpdateKeys(variant, name) ==
    CASE name = "d_optim" ->
            <<Placeholder("real_points"), Placeholder("noise")>>
            \o (IF variant = "ImageGan" THEN <<IsTrainingPh(variant)>> ELSE <<>>)
      [] name = "g_optim" ->
            (IF variant = "UnrolledGan" THEN <<Placeholder("real_points")>> ELSE <<>>)
            \o <<Placeholder("noise")>>
            \o (IF variant = "ImageGan" THEN <<IsTrainingPh(variant)>> ELSE <<>>)
      [] name = "c_optim" ->
            <<Placeholder("real_points"), Placeholder("fake_points")>>
            \o (IF variant = "ImageGan" THEN <<IsTrainingPh(variant)>> ELSE <<>>)

\* session.run of a parameter update: it returns nothing, or fails on its feed.
UpdateExc(variant, name) ==
    LET keys == UpdateKeys(variant, name)
    IN  IF \E i \in 1..Len(keys) : keys[i].kind # "placeholder" THEN "TypeError"
        ELSE IF ~(OpDeps(variant, name) \subseteq {keys[i].name : i \in 1..Len(keys)})
        THEN "InvalidArgumentError"
        ELSE "none"

\* np.random.choice(a, size, replace=False).
ChoiceExc(a, size) == IF a <= 0 \/ size > a THEN "ValueError" ELSE "none"

\* self._data.num_points / opts['batch_size'], Python 2 integer division.
TrainBatchesNumCeil(num_points, batch_size) == (num_points + batch_size - 1) \div batch_size
TrainBatchesNum(num_points, batch_size) == num_points \div batch_size

(***************************************************************************)
(* Program constants of the training loops.                                *)
(***************************************************************************)
NoiseForPlots == 500
ToyPlotEvery == 100
ToyPlotRows == 300
ImagePlotRows == 16

PlotEveryOption(variant, opts) == opts.plot_every
PlotEvery(variant, opts) == IF variant = "ToyGan" THEN ToyPlotEvery ELSE opts.plot_every
PlotRows(variant) == IF variant = "ToyGan" THEN ToyPlotRows ELSE ImagePlotRows

\* The periodic sampling of the generator inside the training loop.
PlotArgs(variant, opts) ==
    LET noise == Slice(Iota(NoiseForPlots), 0, PlotRows(variant))
        flagged == variant = "ImageGan"
    IN  RunBatchArgs(GraphOp(variant, "G", "noise", NoiseForPlots),
                     Placeholder("noise"), noise, 2, opts.tf_run_batch_size,
                     IF flagged THEN IsTrainingPh(variant) ELSE PyNone,
                     IF flagged THEN "False" ELSE "None")

PlotRun(variant, opts) == RunBatch(PlotArgs(variant, opts))

\* ImageGan and UnrolledGan check the early-stop cutoff; ToyGan has none.
EarlyStopNever(variant, opts, counter) == FALSE
EarlyStopAtLimit(variant, opts, counter) ==
    variant # "ToyGan" /\ opts.early_stop > 0 /\ counter >= opts.early_stop
EarlyStop(variant, opts, counter) ==
    variant # "ToyGan" /\ opts.early_stop > 0 /\ counter > opts.early_stop

(***************************************************************************)
(* _train_internal of the three variants as the sequence of engine calls   *)
(* and progress signals it makes when no call fails: "d" and "g" are the   *)
(* parameter updates, "plot" the periodic sampling, "bam" the per-epoch    *)
(* progress signal.                                                        *)
(***************************************************************************)
\* One pass of the inner loop body: the updates of a minibatch, the counter
\* increment and the plot when the new counter value asks for one.
MinibatchSteps(variant, opts, counter) ==
    Repeat("d", opts.d_steps) \o Repeat("g", opts.g_steps)
        \o (IF opts.verbose /\ (counter + 1) % PlotEvery(variant, opts) = 0
            THEN <<"plot">> ELSE <<>>)

\* The inner loop, for _idx in xrange(batches_num): idx runs from 0 up to the
\* first pass that ends in the break, or through all of xrange(batches_num).
EpochLoop(variant, opts, num_points, counter) ==
    LET batches_num == TrainBatchesNum(num_points, opts.batch_size)
        breaks == {idx \in 0..(batches_num - 1) : EarlyStop(variant, opts, counter + idx + 1)}
        passes == IF breaks = {} THEN batches_num
                  ELSE 1 + CHOOSE idx \in breaks : \A other \in breaks : idx <= other
    IN  [counter |-> counter + passes,
         log |-> Flatten([i \in 1..passes |-> MinibatchSteps(variant, opts, counter + i - 1)],
                         1, passes)]

\* The outer loop: for _epoch in xrange(opts["gan_epoch_num"]), pbar.bam()
\* after the inner loop; counter is carried from epoch to epoch.
RECURSIVE TrainLoop(_, _, _, _, _)
TrainLoop(variant, opts, num_points, epoch, counter) ==
    IF epoch >= opts.gan_epoch_num THEN <<>>
    ELSE LET r == EpochLoop(variant, opts, num_points, counter)
         IN  r.log \o <<"bam">> \o TrainLoop(variant, opts, num_points, epoch + 1, r.counter)

TrainPlan(variant, opts, num_points) ==
    IF variant = "Gan" THEN <<>> ELSE TrainLoop(variant, opts, num_points, 0, 0)

\* The failure one call of the plan raises by itself, whatever the engine does.
StepExc(variant, opts, step) ==
    CASE step = "d" -> UpdateExc(variant, "d_optim")
      [] step = "g" -> UpdateExc(variant, "g_optim")
      [] step = "plot" -> PlotRun(variant, opts).exc
      [] OTHER -> "none"

(***************************************************************************)
(* _train_internal.  fail_at names the engine call the engine fails on (0: *)
(* none).  log holds the calls that completed, failed the call that        *)
(* raised; nothing is run after it.                                        *)
(***************************************************************************)
TrainInternal(variant, opts, num_points, fail_at) ==
    IF variant = "Gan"
    THEN [exc |-> ExcNoTrain, log |-> <<>>, failed |-> "none"]
    ELSE LET plan == TrainPlan(variant, opts, num_points)
             bad == {i \in 1..Len(plan) :
                        /\ plan[i] # "bam"
                        /\ (i = fail_at \/ StepExc(variant, opts, plan[i]) # "none")}
         IN  IF bad = {}
             THEN [exc |-> "none", log |-> plan, failed |-> "none"]
             ELSE LET k == CHOOSE i \in bad : \A j \in bad : i <= j
                      own == StepExc(variant, opts, plan[k])
                  IN  [exc |-> IF own # "none" THEN own ELSE ExcEngine,
                       log |-> SubSeq(plan, 1, k - 1), failed |-> plan[k]]

\* Gan.train, lines 72-73: the flag is set after _train_internal returned.
TrainedAfterFinally(trained, exc) == TRUE
TrainedAfter(trained, exc) == IF exc = "none" THEN TRUE ELSE trained

(***************************************************************************)
(* _sample_internal: num latent vectors through the generator by           *)
(* _run_batch; ImageGan passes the mode placeholder with False.            *)
(***************************************************************************)
SampleArgs(variant, opts, num) ==
    LET flagged == variant = "ImageGan"
    IN  RunBatchArgs(GraphOp(variant, "G", "noise", num),
                     Placeholder("noise"), Iota(num), 2, opts.tf_run_batch_size,
                     IF flagged THEN IsTrainingPh(variant) ELSE PyNone,
                     IF flagged THEN "False" ELSE "None")

SampleInternal(variant, opts, num) ==
    IF variant = "Gan"
    THEN [exc |-> ExcNoSample, val |-> NoArray, evals |-> <<>>]
    ELSE RunBatch(SampleArgs(variant, opts, num))

\* Gan.sample, line 79: the assert on _trained.
SampleGateClosed(trained) == FALSE
SampleGateOpen(trained) == TRUE
SampleGate(trained) == trained

GanSample(variant, opts, trained, num) ==
    IF ~SampleGate(trained)
    THEN [exc |-> ExcUntrained, val |-> NoArray, evals |-> <<>>]
    ELSE SampleInternal(variant, opts, num)

(***************************************************************************)
(* _train_mixture_discriminator_internal: the classifier updates ("c"),    *)
(* one progress signal per epoch, then the classifier on every real point  *)
(* by _run_batch.  ImageGan and UnrolledGan pass self._is_training_ph with *)
(* False to _run_batch.                                                    *)
(***************************************************************************)
MixtureFirstExc(variant, opts, num_points, fake_len) ==
    IF opts.mixture_c_epoch_num * TrainBatchesNum(num_points, opts.batch_size) = 0
    THEN "none"
    ELSE IF ChoiceExc(fake_len, opts.batch_size) # "none"
    THEN ChoiceExc(fake_len, opts.batch_size)
    ELSE IF ChoiceExc(num_points, opts.batch_size) # "none"
    THEN ChoiceExc(num_points, opts.batch_size)
    ELSE UpdateExc(variant, "c_optim")

RECURSIVE MixtureLog(_, _, _)
MixtureLog(opts, num_points, epoch) ==
    IF epoch >= opts.mixture_c_epoch_num THEN <<>>
    ELSE Repeat("c", TrainBatchesNum(num_points, opts.batch_size)) \o <<"bam">>
         \o MixtureLog(opts, num_points, epoch + 1)

MixtureEvalArgs(variant, opts, num_points) ==
    LET flagged == variant # "ToyGan"
    IN  RunBatchArgs(GraphOp(variant, "c_training", "real_points", num_points),
                     Placeholder("real_points"), Iota(num_points), 2,
                     opts.tf_run_batch_size,
                     IF flagged THEN IsTrainingPh(variant) ELSE PyNone,
                     IF flagged THEN "False" ELSE "None")

MixtureEval(variant, opts, num_points) == RunBatch(MixtureEvalArgs(variant, opts, num_points))

TrainMixtureDiscriminatorInternal(variant, opts, num_points, fake_len) ==
    IF variant = "Gan"
    THEN [exc |-> ExcNoMixture, val |-> NoArray, evals |-> <<>>, log |-> <<>>]
    ELSE LET first == MixtureFirstExc(variant, opts, num_points, fake_len)
         IN  IF first # "none"
             THEN [exc |-> first, val |-> NoArray, evals |-> <<>>, log |-> <<>>]
             ELSE LET res == MixtureEval(variant, opts, num_points)
                  IN  [exc |-> res.exc, val |-> res.val, evals |-> res.evals,
                       log |-> MixtureLog(opts, num_points, 0)]

\* Gan.train_mixture_discriminator, lines 87-88: _trained is not consulted.
GatedTrainMixtureDiscriminator(variant, opts, trained, num_points, fake_len) ==
    IF ~trained
    THEN [exc |-> ExcUntrained, val |-> NoArray, evals |-> <<>>, log |-> <<>>]
    ELSE TrainMixtureDiscriminatorInternal(variant, opts, num_points, fake_len)
GanTrainMixtureDiscriminator(variant, opts, trained, num_points, fake_len) ==
    TrainMixtureDiscriminatorInternal(variant, opts, num_points, fake_len)

(***************************************************************************)
(* The feeds handed to the engine, one entry per session.run: the          *)
(* operation and its feed_dict as <<key, value>> pairs.  The minibatches   *)
(* are drawn at random and appear as "batch"; the mode flag is fed as the  *)
(* Python constant the code writes.                                        *)
(***************************************************************************)
TrainingModeOff == "False"
TrainingMode == "True"

UpdateFeed(variant, name) ==
    LET keys == UpdateKeys(variant, name)
    IN  [i \in 1..Len(keys) |->
            <<keys[i], IF keys[i] = IsTrainingPh(variant) THEN TrainingMode ELSE "batch">>]

RunBatchFeeds(a, evals) ==
    [i \in 1..Len(evals) |->
        [op |-> a.operation.name,
         fd |-> FeedDict(a.placeholder, evals[i], a.placeholder2, a.feed2)]]

StepFeeds(variant, opts, step) ==
    CASE step = "d" -> << [op |-> "d_optim", fd |-> UpdateFeed(variant, "d_optim")] >>
      [] step = "g" -> << [op |-> "g_optim", fd |-> UpdateFeed(variant, "g_optim")] >>
      [] step = "c" -> << [op |-> "c_optim", fd |-> UpdateFeed(variant, "c_optim")] >>
      [] step = "plot" -> RunBatchFeeds(PlotArgs(variant, opts), PlotRun(variant, opts).evals)
      [] OTHER -> <<>>

FeedsOf(variant, opts, steps) ==
    Flatten([i \in 1..Len(steps) |-> StepFeeds(variant, opts, steps[i])], 1, Len(steps))

\* The feeds of a train call: those of the calls that completed and of the
\* call that raised, up to the session.run it raised in.
TrainFeeds(variant, opts, r) ==
    LET done == FeedsOf(variant, opts, r.log)
        at == IF r.failed = "none" THEN <<>> ELSE StepFeeds(variant, opts, r.failed)
    IN  done \o (IF r.failed # "none" /\ StepExc(variant, opts, r.failed) = "none"
                 THEN SubSeq(at, 1, 1) ELSE at)

\* The feeds of a train_mixture_discriminator call.
MixtureFeeds(variant, opts, num_points, r) ==
    FeedsOf(variant, opts, r.log)
        \o RunBatchFeeds(MixtureEvalArgs(variant, opts, num_points), r.evals)

(***************************************************************************)
(* UnrolledGan.extract_update_dict.  An update op has a type, the variable *)
(* it writes (inputs[0]) and a value tensor (inputs[1]).  The mapping is   *)
(* an OrderedDict: a sequence of <<variable, new value>> in insertion      *)
(* order, a later entry for the same variable replacing the earlier one.   *)
(***************************************************************************)
MaxUpdates == 2

OpTypes == {"Assign", "AssignAdd", "AssignSub"}
DVars == {"w", "b"}
Tensors == {"t1", "t2"}
UpdateOps == [type : OpTypes, var : DVars, value : Tensors]

\* The names bound where line 820 builds its message: the parameters and
\* the locals of extract_update_dict.
BoundNames ==
    {"self", "update_ops", "name_to_var", "updates", "update", "var_name", "var", "value"}

\* raise ValueError("..." % update_op.op.type): the message is evaluated
\* first, and evaluating a name that is not bound raises NameError.
UnsupportedExc == IF "update_op" \in BoundNames THEN "ValueError" ELSE "NameError"

DictSet(updates, key, value) ==
    IF \E i \in 1..Len(updates) : updates[i][1] = key
    THEN [i \in 1..Len(updates) |->
             IF updates[i][1] = key THEN <<key, value>> ELSE updates[i]]
    ELSE Append(updates, <<key, value>>)

RECURSIVE ExtractLoop(_, _)
ExtractLoop(update_ops, updates) ==
    IF update_ops = <<>> THEN [exc |-> "none", updates |-> updates]
    ELSE LET update == Head(update_ops)
         IN  IF update.type = "Assign"
             THEN ExtractLoop(Tail(update_ops),
                              DictSet(updates, update.var,
                                      [form |-> "value", var |-> update.var,
                                       value |-> update.value]))
             ELSE IF update.type = "AssignAdd"
             THEN ExtractLoop(Tail(update_ops),
                              DictSet(updates, update.var,
                                      [form |-> "sum", var |-> update.var,
                                       value |-> update.value]))
             ELSE [exc |-> UnsupportedExc, updates |-> <<>>]

ExtractUpdateDict(update_ops) == ExtractLoop(update_ops, <<>>)

(***************************************************************************)
(* UnrolledGan._build_model_internal, lines 768-781: the generator loss.   *)
(* A symbolic parameter value is kept by its level: the number of update   *)
(* steps applied, one on top of the other, to the current parameters.  The *)
(* discriminator loss reads every parameter at level 0; an extracted       *)
(* update is the parameter at level 1.                                     *)
(***************************************************************************)
MaxUnroll == 3

DLoss == [neg |-> FALSE, level |-> [v \in DVars |-> 0]]
Neg(loss) == [loss EXCEPT !.neg = ~@]

Symbolic(updates) ==
    [i \in 1..Len(updates) |-> <<updates[i][1], [expr |-> updates[i][2], level |-> 1]>>]

DictKeys(dict) == {dict[i][1] : i \in 1..Len(dict)}
DictGet(dict, key) == dict[CHOOSE i \in 1..Len(dict) : dict[i][1] = key][2]

\* The level at which an expression rebuilt over cur reads parameter v.
ReadLevel(cur, v) == IF v \in DictKeys(cur) THEN DictGet(cur, v).level ELSE 0

\* graph_replace(update_dict, cur_update_dict): every update is rebuilt with
\* the parameters it reads replaced by their values in cur_update_dict.
GraphReplaceDict(update_dict, cur) ==
    [i \in 1..Len(update_dict) |->
        <<update_dict[i][1],
          [update_dict[i][2] EXCEPT !.level = 1 + ReadLevel(cur, update_dict[i][1])]>>]

\* graph_replace(d_loss, cur_update_dict).
GraphReplaceLoss(loss, cur) == [loss EXCEPT !.level = [v \in DVars |-> ReadLevel(cur, v)]]

\* xrange(opts['unrolling_steps'] - 1).
UnrollIterationsOneMore(unrolling_steps) == unrolling_steps
UnrollIterations(unrolling_steps) == unrolling_steps - 1

RECURSIVE UnrollLoop(_, _, _, _)
UnrollLoop(update_dict, cur, i, n) ==
    IF i >= n THEN [dict |-> cur, replaces |-> i]
    ELSE UnrollLoop(update_dict, GraphReplaceDict(update_dict, cur), i + 1, n)

NoLoss == [neg |-> FALSE, level |-> [v \in DVars |-> 0 - 1]]

GeneratorLoss(unrolling_steps, update_ops) ==
    IF unrolling_steps > 0
    THEN LET r == ExtractUpdateDict(update_ops)
         IN  IF r.exc # "none"
             THEN [exc |-> r.exc, g_loss |-> NoLoss, extracts |-> 1, dict_replaces |-> 0,
                   loss_replaces |-> 0]
             ELSE LET update_dict == Symbolic(r.updates)
                      u == UnrollLoop(update_dict, update_dict, 0,
                                      UnrollIterations(unrolling_steps))
                  IN  [exc |-> "none", g_loss |-> Neg(GraphReplaceLoss(DLoss, u.dict)),
                       extracts |-> 1, dict_replaces |-> u.replaces, loss_replaces |-> 1]
    ELSE [exc |-> "none", g_loss |-> Neg(DLoss), extracts |-> 0, dict_replaces |-> 0,
          loss_replaces |-> 0]

NoUnroll ==
    [called |-> FALSE, unrolling_steps |-> 0, update_ops |-> <<>>, exc |-> "none",
     g_loss |-> NoLoss, extracts |-> 0, dict_replaces |-> 0, loss_replaces |-> 0]

(***************************************************************************)
(* Two model instances in one process.  tf.Session() (line 26) takes the   *)
(* process-wide default graph, whatever instance asks; the build adds its  *)
(* symbols to the graph of the session; tf.reset_default_graph() (line 62) *)
(* installs a fresh default graph and leaves the old one to the sessions   *)
(* that hold it.  A symbol is a pair <<instance that created it, name>>.   *)
(***************************************************************************)
Instances == {1, 2}
ConcreteVariants == Variants \ {"Gan"}
GraphIds == 0..Cardinality(Instances)

NoInstance == [state |-> "none", variant |-> "Gan", graph |-> 0 - 1, exc |-> "none"]

NoTwo ==
    [default_graph |-> 0,
     inst |-> [i \in Instances |-> NoInstance],
     symbols |-> [g \in GraphIds |-> {}]]

\* The placeholders, created first by every build (lines 210-215, 444-451,
\* 708-715), and the variable scopes opened with reuse=False afterwards.
PlaceholderSymbols(variant) ==
    {"real_points_ph", "fake_points_ph", "noise_ph"}
        \cup (IF variant = "ImageGan" THEN {"is_train"} ELSE {})
ScopeSymbols == {"GENERATOR", "DISCRIMINATOR", "CLASSIFIER"}

ScopesIn(symbols) == {sym[2] : sym \in symbols} \cap ScopeSymbols

\* What a build leaves in the graph: all of its symbols when it completes,
\* its placeholders only when opening a scope raised.
BuildSymbols(i, variant, exc) ==
    {<<i, name>> : name \in PlaceholderSymbols(variant)
                       \cup (IF exc = "none" THEN ScopeSymbols ELSE {})}

\* Opening a scope with reuse=False in a graph that already holds it: the
\* variables are created by the layers of the ops module, which either share
\* the graph silently or refuse the second creation.
BuildOutcomes(symbols) ==
    IF ScopesIn(symbols) = {} THEN {"none"} ELSE {"none", "ValueError"}

(***************************************************************************)
(* Gan.__init__: session, fields, the subclass build inside the session's  *)
(* graph, then one run of the variables initializer.  The build of the     *)
(* base class raises, and the initializer is then never run.               *)
(***************************************************************************)
BuildModelInternalSilent(variant) == "none"
BuildModelInternal(variant) == IF variant = "Gan" THEN ExcNoBuild ELSE "none"

\* The steps of Gan.__init__ in the order of the code: the session (line 26),
\* the fields (27-43), the build (45-47), the initializer (50-54).  A raising
\* build ends the constructor there.
CtorPlanInitFirst == <<"session", "fields", "init", "build">>
CtorPlan == <<"session", "fields", "build", "init">>

RECURSIVE CtorLoop(_, _, _)
CtorLoop(variant, i, log) ==
    IF i > Len(CtorPlan) THEN log
    ELSE IF CtorPlan[i] = "build" /\ BuildModelInternal(variant) # "none"
         THEN Append(log, CtorPlan[i])
         ELSE CtorLoop(variant, i + 1, Append(log, CtorPlan[i]))

CtorLog(variant) == CtorLoop(variant, 1, <<>>)

NoModel ==
    [state |-> "absent", session |-> "none", trained |-> FALSE,
     is_training_ph |-> PyNone, built |-> FALSE, init_runs |-> 0, graph |-> 0,
     closes |-> 0, ctor |-> <<>>]

GanInit(variant, default_graph) ==
    LET exc == BuildModelInternal(variant)
        log == CtorLog(variant)
    IN  [state |-> IF exc = "none" THEN "ready" ELSE "unbuilt",
         session |-> "open", trained |-> FALSE,
         is_training_ph |-> IF exc = "none" THEN IsTrainingPh(variant) ELSE PyNone,
         built |-> exc = "none",
         init_runs |-> Len(SelectSeq(log, LAMBDA step : step = "init")),
         graph |-> default_graph, closes |-> 0, ctor |-> log]

\* Gan.__exit__: tf.reset_default_graph() installs a fresh default graph,
\* then self._session.close().
ResetDefaultGraph(default_graph) == default_graph + 1
GanExit(model) == [model EXCEPT !.session = "closed", !.closes = @ + 1]

\* What __exit__ returns decides whether the with statement swallows the
\* exception of the block: it returns None.
ExitSwallowsAlways(exc) == TRUE
ExitSwallows(exc) == FALSE

(***************************************************************************)
(* The caller.  The configuration and the dataset are fixed before the     *)
(* model is constructed; the model is then used plainly or inside a with   *)
(* block.  env.raised remembers the exception that left the block and      *)
(* env.train_done whether some train call has returned normally.           *)
(***************************************************************************)
Options ==
    [tf_run_batch_size : 1..2, batch_size : 1..MaxBatch,
     gan_epoch_num : 0..MaxEpochs, mixture_c_epoch_num : 0..1,
     d_steps : 1..2, g_steps : {1}, early_stop : {0}, plot_every : {1},
     verbose : {FALSE}, unrolling_steps : {0}]

NoOutcome ==
    [op |-> "none", arg |-> 0, exc |-> "none", val |-> NoArray, evals |-> <<>>,
     log |-> <<>>, failed |-> "none", trained_before |-> FALSE, feeds |-> <<>>]

Outcome(op, arg, exc, val, evals, log, failed, before) ==
    [op |-> op, arg |-> arg, exc |-> exc, val |-> val, evals |-> evals,
     log |-> log, failed |-> failed, trained_before |-> before, feeds |-> <<>>]

Fed(outcome, feeds) == [outcome EXCEPT !.feeds = feeds]

NoExtract == [called |-> FALSE, update_ops |-> <<>>, exc |-> "none", updates |-> <<>>]

\* An exception raised inside the with block unwinds it at once.
Raise(exc) ==
    IF exc # "none" /\ env.block = "entered"
    THEN [env EXCEPT !.pending = exc, !.raised = exc]
    ELSE env

CanCall ==
    /\ m.state \in {"ready", "unbuilt"}
    /\ m.session = "open"
    /\ env.pending = "none"

Construct ==
    /\ m.state = "absent"
    /\ m' = GanInit(env.variant, env.default_graph)
    /\ last' = Outcome("__init__", 0, BuildModelInternal(env.variant), NoArray, <<>>,
                       <<>>, "none", FALSE)
    /\ UNCHANGED <<rb, env, ex, un, two>>

Enter ==
    /\ CanCall
    /\ env.block = "none"
    /\ env' = [env EXCEPT !.block = "entered"]
    /\ UNCHANGED <<rb, m, last, ex, un, two>>

\* Gan.train; fail_at names the engine call the engine fails on (0: none).
TrainWith(fail_at) ==
    /\ CanCall
    /\ LET r == TrainInternal(env.variant, env.opts, env.num_points, fail_at)
       IN  /\ m' = [m EXCEPT !.trained = TrainedAfter(m.trained, r.exc)]
           /\ last' = Fed(Outcome("train", fail_at, r.exc, NoArray, <<>>, r.log, r.failed,
                                  m.trained),
                          TrainFeeds(env.variant, env.opts, r))
           /\ env' = [Raise(r.exc) EXCEPT !.train_done = @ \/ r.exc = "none"]
    /\ UNCHANGED <<rb, ex, un, two>>

Train ==
    \E fail_at \in 0..Len(TrainPlan(env.variant, env.opts, env.num_points)) :
        TrainWith(fail_at)

Sample ==
    /\ CanCall
    /\ \E num \in 0..MaxNum :
          LET r == GanSample(env.variant, env.opts, m.trained, num)
          IN  /\ last' = Fed(Outcome("sample", num, r.exc, r.val, r.evals, <<>>, "none",
                                     m.trained),
                             RunBatchFeeds(SampleArgs(env.variant, env.opts, num), r.evals))
              /\ env' = Raise(r.exc)
    /\ UNCHANGED <<rb, m, ex, un, two>>

TrainMixtureDiscriminator ==
    /\ CanCall
    /\ \E fake_len \in 0..MaxNum :
          LET r == GanTrainMixtureDiscriminator(env.variant, env.opts, m.trained,
                                                env.num_points, fake_len)
          IN  /\ last' = Fed(Outcome("train_mixture_discriminator", fake_len, r.exc,
                                     r.val, r.evals, r.log, "none", m.trained),
                             MixtureFeeds(env.variant, env.opts, env.num_points, r))
              /\ env' = Raise(r.exc)
    /\ UNCHANGED <<rb, m, ex, un, two>>

\* Leaving the with block, normally or with an exception pending.
Exit ==
    /\ env.block = "entered"
    /\ m' = GanExit(m)
    /\ env' = [env EXCEPT !.block = "exited",
                          !.default_graph = ResetDefaultGraph(@),
                          !.pending = "none",
                          !.propagated = IF ExitSwallows(env.pending) THEN "none"
                                         ELSE env.pending]
    /\ UNCHANGED <<rb, last, ex, un, two>>

Init ==
    /\ rb = NoCall
    /\ m = NoModel
    /\ \E variant \in Variants, num_points \in 1..MaxPoints, opts \in Options :
          env = [variant |-> variant, num_points |-> num_points, opts |-> opts,
                 block |-> "none", pending |-> "none", propagated |-> "none",
                 default_graph |-> 0, raised |-> "none", train_done |-> FALSE]
    /\ last = NoOutcome
    /\ ex = NoExtract
    /\ un = NoUnroll
    /\ two = NoTwo

Next ==
    \/ Construct
    \/ Enter
    \/ Train
    \/ Sample
    \/ TrainMixtureDiscriminator
    \/ Exit

Spec == Init /\ [][Next]_vars

(***************************************************************************)
(* The specification of _run_batch alone.                                  *)
(***************************************************************************)
IdleEnv ==
    [variant |-> "ToyGan", num_points |-> 1, opts |-> CHOOSE o \in Options : TRUE,
     block |-> "none", pending |-> "none", propagated |-> "none",
     default_graph |-> 0, raised |-> "none", train_done |-> FALSE]

InitRB ==
    /\ rb = NoCall
    /\ m = NoModel
    /\ env = IdleEnv
    /\ last = NoOutcome
    /\ ex = NoExtract
    /\ un = NoUnroll
    /\ two = NoTwo

NextRB == RunBatchCall

SpecRB == InitRB /\ [][NextRB]_vars

(***************************************************************************)
(* The specification of extract_update_dict alone.                         *)
(***************************************************************************)
ExtractCall ==
    /\ ~ex.called
    /\ \E update_ops \in SeqsUpTo(UpdateOps, MaxUpdates) :
          LET r == ExtractUpdateDict(update_ops)
          IN  ex' = [called |-> TRUE, update_ops |-> update_ops, exc |-> r.exc,
                     updates |-> r.updates]
    /\ UNCHANGED <<rb, m, env, last, un, two>>

InitExtract ==
    /\ rb = NoCall
    /\ m = NoModel
    /\ env = IdleEnv
    /\ last = NoOutcome
    /\ ex = NoExtract
    /\ un = NoUnroll
    /\ two = NoTwo

NextExtract == ExtractCall

SpecExtract == InitExtract /\ [][NextExtract]_vars

(***************************************************************************)
(* The specification of the training loops: a concrete variant is          *)
(* constructed and then trained, sampled and asked for the mixture         *)
(* discriminator, with an engine that does not fail by itself.  The        *)
(* configurations cover several epochs, the early-stop cutoff and the      *)
(* periodic plot.                                                          *)
(***************************************************************************)
TrainOptions ==
    [tf_run_batch_size : {2}, batch_size : 1..MaxBatch,
     gan_epoch_num : 0..(MaxEpochs + 1), mixture_c_epoch_num : {1},
     d_steps : 1..2, g_steps : 1..2, early_stop : 0..2, plot_every : 1..2,
     verbose : BOOLEAN, unrolling_steps : {0}]

TrainReliable == TrainWith(0)

InitTrain ==
    /\ rb = NoCall
    /\ m = NoModel
    /\ \E variant \in ConcreteVariants, num_points \in 1..MaxPoints, opts \in TrainOptions :
          env = [variant |-> variant, num_points |-> num_points, opts |-> opts,
                 block |-> "none", pending |-> "none", propagated |-> "none",
                 default_graph |-> 0, raised |-> "none", train_done |-> FALSE]
    /\ last = NoOutcome
    /\ ex = NoExtract
    /\ un = NoUnroll
    /\ two = NoTwo

NextTrain ==
    \/ Construct
    \/ TrainReliable
    \/ Sample
    \/ TrainMixtureDiscriminator

SpecTrain == InitTrain /\ [][NextTrain]_vars

(***************************************************************************)
(* The specification of the periodic plot of ToyGan: trainings long enough *)
(* for the minibatch counter to pass the plot period, with and without     *)
(* opts['verbose'].                                                        *)
(***************************************************************************)
PlotPoints == 10
PlotEpochs == 20

PlotOptions ==
    [tf_run_batch_size : {128, ToyPlotRows}, batch_size : {1},
     gan_epoch_num : {PlotEpochs \div 2 - 1, PlotEpochs \div 2, PlotEpochs - 1, PlotEpochs},
     mixture_c_epoch_num : {0}, d_steps : {1}, g_steps : {1}, early_stop : {0, 1},
     plot_every : {1}, verbose : BOOLEAN, unrolling_steps : {0}]

InitPlot ==
    /\ rb = NoCall
    /\ m = NoModel
    /\ \E num_points \in {PlotPoints, PlotPoints + 1}, opts \in PlotOptions :
          env = [variant |-> "ToyGan", num_points |-> num_points, opts |-> opts,
                 block |-> "none", pending |-> "none", propagated |-> "none",
                 default_graph |-> 0, raised |-> "none", train_done |-> FALSE]
    /\ last = NoOutcome
    /\ ex = NoExtract
    /\ un = NoUnroll
    /\ two = NoTwo

NextPlot ==
    \/ Construct
    \/ TrainReliable
    \/ Sample

SpecPlot == InitPlot /\ [][NextPlot]_vars

(***************************************************************************)
(* The specification of two instances: each is constructed once and, when  *)
(* its constructor returned, torn down once, in any interleaving.          *)
(***************************************************************************)
ConstructInstance(i) ==
    /\ two.inst[i].state = "none"
    /\ \E variant \in ConcreteVariants :
         LET g == two.default_graph
         IN  \E exc \in BuildOutcomes(two.symbols[g]) :
               two' = [two EXCEPT
                          !.inst[i] = [state |-> IF exc = "none" THEN "open" ELSE "failed",
                                       variant |-> variant, graph |-> g, exc |-> exc],
                          !.symbols[g] = @ \cup BuildSymbols(i, variant, exc)]
    /\ UNCHANGED <<rb, m, env, last, ex, un>>

ExitInstance(i) ==
    /\ two.inst[i].state = "open"
    /\ two' = [two EXCEPT !.inst[i].state = "closed",
                          !.default_graph = ResetDefaultGraph(@)]
    /\ UNCHANGED <<rb, m, env, last, ex, un>>

InitTwo ==
    /\ rb = NoCall
    /\ m = NoModel
    /\ env = IdleEnv
    /\ last = NoOutcome
    /\ ex = NoExtract
    /\ un = NoUnroll
    /\ two = NoTwo

NextTwo == \E i \in Instances : ConstructInstance(i) \/ ExitInstance(i)

SpecTwo == InitTwo /\ [][NextTwo]_vars

(***************************************************************************)
(* The specification of the generator loss of UnrolledGan alone: the       *)
(* update ops are the optimizer's, unrolling_steps the configuration's.    *)
(***************************************************************************)
BuildGeneratorLoss ==
    /\ ~un.called
    /\ \E unrolling_steps \in (0 - 1)..MaxUnroll, update_ops \in SeqsUpTo(UpdateOps, MaxUpdates) :
          LET r == GeneratorLoss(unrolling_steps, update_ops)
          IN  un' = [called |-> TRUE, unrolling_steps |-> unrolling_steps,
                     update_ops |-> update_ops, exc |-> r.exc, g_loss |-> r.g_loss,
                     extracts |-> r.extracts, dict_replaces |-> r.dict_replaces,
                     loss_replaces |-> r.loss_replaces]
    /\ UNCHANGED <<rb, m, env, last, ex, two>>

InitUnroll ==
    /\ rb = NoCall
    /\ m = NoModel
    /\ env = IdleEnv
    /\ last = NoOutcome
    /\ ex = NoExtract
    /\ un = NoUnroll
    /\ two = NoTwo

NextUnroll == BuildGeneratorLoss

SpecUnroll == InitUnroll /\ [][NextUnroll]_vars

(***************************************************************************)
(* Properties of _run_batch, checked under SpecRB.                         *)
(***************************************************************************)
RBCase == rb.called /\ rb.args.feed_ndim > 0 /\ Len(rb.args.feed) >= 1
RBFeed == rb.args.feed
RBRows == rb.out.val.data

RowsPreserved ==
    /\ rb.out.exc = "none"
    /\ Len(RBRows) = Len(RBFeed)
    /\ \A i \in 1..Len(RBFeed) : RBRows[i] = rb.args.operation.map[RBFeed[i]]

\* C1 as stated: for N >= 1 rows, any chunk size and any pointwise f, the
\* result has N rows, row i is f of row i, and the result equals the
\* unchunked evaluation f(input).
C1_EqualsUnchunked ==
    RBCase => RowsPreserved /\ rb.out.val = Unchunked(rb.args)

\* C1 amended: for N >= 1 rows, any chunk size and any pointwise f, the
\* result has N rows and row i holds f of row i in the original order; it
\* equals the unchunked evaluation f(input) when f's output has rank >= 2,
\* and is f(input) reshaped to an (N,1) column when f's output has rank 1.
C1_RowsPreservedUpToReshape ==
    RBCase =>
        /\ RowsPreserved
        /\ rb.out.val = Reshape(Unchunked(rb.args))
        /\ rb.args.operation.rank >= 2 => rb.out.val = Unchunked(rb.args)
        /\ rb.args.operation.rank = 1 => rb.out.val.rank = 2

C1_Witness ==
    /\ RBCase
    /\ Len(RBFeed) > rb.args.batch_size
    /\ Len(RBFeed) % rb.args.batch_size # 0
    /\ rb.args.operation.rank = 1
    /\ rb.out.exc = "none"
    /\ \E i, j \in 1..Len(RBRows) : RBRows[i] # RBRows[j]

\* The least k with k * batch_size >= num_points.
CeilOf(num_points, batch_size) ==
    CHOOSE k \in 0..num_points :
        k * batch_size >= num_points /\ \A j \in 0..(k - 1) : j * batch_size < num_points

\* C2: for N >= 1 rows and chunk size B >= 1 the computation is evaluated
\* exactly ceil(N/B) times, on contiguous non-overlapping slices covering
\* rows 0..N-1 in order; every chunk but the last has B rows, the last has
\* between 1 and B rows, and no evaluation receives more than B rows.
C2_Chunking ==
    RBCase =>
        LET evals == rb.out.evals
            B == rb.args.batch_size
        IN  /\ Len(evals) = CeilOf(Len(RBFeed), B)
            /\ Concat([i \in 1..Len(evals) |-> Array(2, evals[i])]) = RBFeed
            /\ \A i \in 1..(Len(evals) - 1) : Len(evals[i]) = B
            /\ Len(evals[Len(evals)]) \in 1..B

C2_Witness ==
    /\ RBCase
    /\ Len(rb.out.evals) >= 2
    /\ Len(rb.out.evals[Len(rb.out.evals)]) < rb.args.batch_size
    /\ \E i, j \in 1..Len(RBFeed) : RBFeed[i] # RBFeed[j]

\* C3: on an input whose first dimension has length zero _run_batch raises,
\* returns no result and never evaluates the computation.
C3_EmptyRaises ==
    (rb.called /\ rb.args.feed_ndim > 0 /\ Len(RBFeed) = 0) =>
        /\ rb.out.exc # "none"
        /\ rb.out.val = NoArray
        /\ rb.out.evals = <<>>

C3_Witness ==
    /\ rb.called
    /\ rb.args.feed_ndim > 0
    /\ Len(RBFeed) = 0
    /\ rb.out.exc = "ValueError"

(***************************************************************************)
(* Properties of the lifecycle, checked under Spec.                        *)
(***************************************************************************)
Count(log, e) == Cardinality({i \in 1..Len(log) : log[i] = e})

\* C4: while no train call has completed normally, sample raises the
\* precondition error and never evaluates the generator; sample evaluates
\* the generator only when trained is true.
C4_SampleGated ==
    last.op = "sample" =>
        /\ ~env.train_done => last.exc = ExcUntrained /\ last.evals = <<>>
        /\ last.evals # <<>> => last.trained_before /\ env.train_done

C4_Witness ==
    /\ last.op = "sample"
    /\ env.variant = "ImageGan"
    /\ ~env.train_done
    /\ last.arg >= 1
    /\ last.exc = ExcUntrained

\* C5 as stated: in a state where trained is false,
\* train_mixture_discriminator raises and performs no classifier update.
C5_MixtureGated ==
    (last.op = "train_mixture_discriminator" /\ ~last.trained_before) =>
        last.exc # "none" /\ Count(last.log, "c") = 0

\* C5 amended: train_mixture_discriminator does not consult the trained
\* flag.  It never raises the untrained precondition error, and in a state
\* where trained is false a call on a concrete variant with at least
\* batch_size fake points performs all of its
\* mixture_c_epoch_num * floor(num_points / batch_size) classifier updates.
C5_MixtureNotGated ==
    last.op = "train_mixture_discriminator" =>
        /\ last.exc # ExcUntrained
        /\ (~last.trained_before /\ env.variant # "Gan"
                /\ last.arg >= env.opts.batch_size) =>
              Count(last.log, "c") =
                  env.opts.mixture_c_epoch_num
                      * (env.num_points \div env.opts.batch_size)

C5_Witness ==
    /\ last.op = "train_mixture_discriminator"
    /\ ~last.trained_before
    /\ ~env.train_done
    /\ last.exc = "none"
    /\ Count(last.log, "c") >= 1

\* C6: trained is false until a train call completes normally and becomes
\* true only then; when the training loop raises, train raises the same
\* failure, runs no step after the failing one and leaves trained as it was.
C6_TrainedOnlyOnSuccess ==
    /\ m.trained <=> env.train_done
    /\ last.op = "train" =>
          LET plan == TrainPlan(env.variant, env.opts, env.num_points)
          IN  IF last.exc = "none"
              THEN m.trained /\ last.log = plan
              ELSE /\ m.trained = last.trained_before
                   /\ Len(last.log) < Len(plan) \/ env.variant = "Gan"
                   /\ last.log = SubSeq(plan, 1, Len(last.log))
                   /\ last.exc = IF env.variant = "Gan" THEN ExcNoTrain ELSE ExcEngine

C6_Witness ==
    /\ last.op = "train"
    /\ last.exc = ExcEngine
    /\ last.failed = "g"
    /\ Len(last.log) >= 1
    /\ ~m.trained

IsBaseCall == env.variant = "Gan" /\ last.op # "none"

\* C7 as stated: each of train, sample and train_mixture_discriminator on
\* an instance of the base type raises the not-implemented failure of the
\* abstract operation.
C7_BaseNotImplemented ==
    (IsBaseCall /\ last.op # "__init__") =>
        last.exc = (CASE last.op = "train" -> ExcNoTrain
                      [] last.op = "sample" -> ExcNoSample
                      [] last.op = "train_mixture_discriminator" -> ExcNoMixture)

\* C7 amended: constructing the base type raises the not-implemented
\* failure of the build; on the unbuilt base instance train and
\* train_mixture_discriminator raise the not-implemented failure of their
\* abstract operation, while sample raises the untrained precondition
\* error, because trained stays false and the gate is checked first.
C7_BaseFailures ==
    IsBaseCall =>
        /\ ~m.trained
        /\ m.init_runs = 0
        /\ last.exc = (CASE last.op = "__init__" -> ExcNoBuild
                         [] last.op = "train" -> ExcNoTrain
                         [] last.op = "sample" -> ExcUntrained
                         [] last.op = "train_mixture_discriminator" -> ExcNoMixture)

C7_Witness ==
    /\ env.variant = "Gan"
    /\ m.state = "unbuilt"
    /\ last.op = "sample"
    /\ last.exc = ExcUntrained
    /\ env.block = "none"

\* C8: once the with block is left, normally or by an exception, the graph
\* has been discarded and the session closed exactly once, and an exception
\* raised in the block has propagated to the caller.
C8_TeardownUnconditional ==
    /\ env.block = "exited" =>
          /\ m.session = "closed"
          /\ m.closes = 1
          /\ env.default_graph = m.graph + 1
          /\ env.propagated = env.raised
          /\ env.pending = "none"
    /\ env.block # "exited" => m.closes = 0 /\ env.default_graph = m.graph
    /\ env.pending # "none" => env.block = "entered" /\ env.pending = last.exc

C8_Witness ==
    /\ env.block = "exited"
    /\ last.op = "train"
    /\ env.raised = ExcEngine
    /\ env.propagated = ExcEngine
    /\ m.session = "closed"

\* C9 as stated: train_mixture_discriminator with any non-empty fake_images
\* on ToyGan, ImageGan or UnrolledGan returns one classifier output per real
\* data point, in dataset order, of length num_points.
C9_OnePerRealPoint ==
    (last.op = "train_mixture_discriminator" /\ env.variant # "Gan" /\ last.arg >= 1) =>
        /\ last.exc = "none"
        /\ Len(last.val.data) = env.num_points
        /\ last.val.data = Iota(env.num_points)

(***************************************************************************)
(* Properties of extract_update_dict, checked under SpecExtract.           *)
(***************************************************************************)
HasUnsupported(update_ops) ==
    \E i \in 1..Len(update_ops) : update_ops[i].type \notin {"Assign", "AssignAdd"}

\* C10 as stated: when some update op is neither Assign nor AssignAdd the
\* extraction fails with the ValueError naming the op type, returns no
\* mapping, and raises no other kind of failure.
C10_UnsupportedIsValueError ==
    (ex.called /\ HasUnsupported(ex.update_ops)) =>
        ex.exc = "ValueError" /\ ex.updates = <<>>

(***************************************************************************)
(* Properties of the generator loss of UnrolledGan, checked under          *)
(* SpecUnroll.                                                             *)
(***************************************************************************)
MaxOf(a, b) == IF a > b THEN a ELSE b

\* C11: for unrolling_steps = K the generator loss is the negated
\* discriminator loss with every updated discriminator parameter at its value
\* after max(K, 0) consecutive update steps; for K <= 0 nothing is extracted
\* or substituted and the loss is exactly the negated discriminator loss, and
\* for K >= 1 the one-step mapping is composed with itself K - 1 more times.
C11_UnrolledLoss ==
    (un.called /\ un.exc = "none") =>
        LET K == un.unrolling_steps
            updated == {un.update_ops[i].var : i \in 1..Len(un.update_ops)}
        IN  /\ un.g_loss.neg
            /\ \A v \in DVars :
                  un.g_loss.level[v] = IF v \in updated THEN MaxOf(K, 0) ELSE 0
            /\ K <= 0 => /\ un.extracts = 0
                         /\ un.dict_replaces = 0
                         /\ un.loss_replaces = 0
                         /\ un.g_loss = Neg(DLoss)
            /\ K >= 1 => /\ un.extracts = 1
                         /\ un.dict_replaces = K - 1
                         /\ un.loss_replaces = 1

C11_Witness ==
    /\ un.called
    /\ un.exc = "none"
    /\ un.unrolling_steps = 3
    /\ Len(un.update_ops) = 2
    /\ un.update_ops[1].var # un.update_ops[2].var
    /\ un.update_ops[1].type # un.update_ops[2].type
    /\ \A v \in DVars : un.g_loss.level[v] = 3

(***************************************************************************)
(* Properties of two instances in one process, checked under SpecTwo.      *)
(***************************************************************************)
\* An instance holds a context from line 26 on, whether or not the build that
\* follows completes, until its __exit__.
Alive(i) == two.inst[i].state \in {"open", "failed"}
VisibleTo(i) == two.symbols[two.inst[i].graph]

\* C12: two instances whose lifetimes overlap have distinct graphs, no symbol
\* created while building one is visible in the graph of the other, and the
\* teardown of one leaves the symbols of the other in its graph.
C12_IsolatedContexts ==
    \A i, j \in Instances :
        (i # j /\ Alive(i)) =>
            /\ Alive(j) => /\ two.inst[i].graph # two.inst[j].graph
                           /\ \A sym \in VisibleTo(i) : sym[1] # j
            /\ two.inst[j].state = "closed" =>
                  BuildSymbols(i, two.inst[i].variant, two.inst[i].exc) \subseteq VisibleTo(i)

(***************************************************************************)
(* Properties of the constructor, checked under Spec.                      *)
(***************************************************************************)
\* C13: the build has completed before the parameters are initialized; the
\* initializer runs exactly once per instance, in the constructor, and no
\* train, sample or train_mixture_discriminator call runs it again; when the
\* build raises it never runs.
C13_InitOnceAfterBuild ==
    m.state # "absent" =>
        /\ m.init_runs = Count(m.ctor, "init")
        /\ m.init_runs = IF m.built THEN 1 ELSE 0
        /\ \A i \in 1..Len(m.ctor) :
              m.ctor[i] = "init" => \E j \in 1..(i - 1) : m.ctor[j] = "build"
        /\ m.built <=> env.variant # "Gan"
        /\ last.op # "__init__" => Count(last.log, "init") = 0

C13_Witness ==
    /\ m.init_runs = 1
    /\ m.ctor = <<"session", "fields", "build", "init">>
    /\ env.train_done
    /\ last.op = "sample"
    /\ last.exc = "none"

(***************************************************************************)
(* Properties of the training loops, checked under SpecTrain.              *)
(***************************************************************************)
TrainReturned == last.op = "train" /\ last.exc = "none"

IsUpdate(step) == step \in {"d", "g"}
UpdatesOf(log) == SelectSeq(log, IsUpdate)

\* One minibatch: d_steps discriminator updates, then g_steps generator updates.
Minibatch(opts) == Repeat("d", opts.d_steps) \o Repeat("g", opts.g_steps)

RECURSIVE Minibatches(_, _)
Minibatches(opts, k) == IF k <= 0 THEN <<>> ELSE Minibatch(opts) \o Minibatches(opts, k - 1)

CutoffActive == env.variant # "ToyGan" /\ env.opts.early_stop > 0

\* C14: with the early stop disabled, train processes exactly
\* gan_epoch_num * floor(num_points / batch_size) minibatches, and every
\* minibatch is d_steps discriminator updates followed by g_steps generator
\* updates, the updates of different minibatches never interleaved.
C14_AlternatingUpdates ==
    (TrainReturned /\ ~CutoffActive) =>
        UpdatesOf(last.log) =
            Minibatches(env.opts,
                        env.opts.gan_epoch_num * (env.num_points \div env.opts.batch_size))

C14_Witness ==
    /\ TrainReturned
    /\ ~CutoffActive
    /\ env.opts.gan_epoch_num = 2
    /\ env.num_points = 2
    /\ env.opts.batch_size = 1
    /\ env.opts.d_steps = 2
    /\ env.opts.g_steps = 2
    /\ UpdatesOf(last.log) = <<"d", "d", "g", "g", "d", "d", "g", "g",
                               "d", "d", "g", "g", "d", "d", "g", "g">>

\* The steps of each epoch: the log cut after every progress signal.
RECURSIVE EpochsFrom(_, _, _)
EpochsFrom(log, cur, done) ==
    IF log = <<>> THEN [epochs |-> done, rest |-> cur]
    ELSE IF Head(log) = "bam" THEN EpochsFrom(Tail(log), <<>>, Append(done, cur))
    ELSE EpochsFrom(Tail(log), Append(cur, Head(log)), done)

EpochsOf(log) == EpochsFrom(log, <<>>, <<>>)

\* The minibatches an epoch processed, by its generator updates.
MinibatchesIn(epoch) == Count(epoch, "g") \div env.opts.g_steps

RECURSIVE MinibatchesBefore(_, _)
MinibatchesBefore(epochs, e) ==
    IF e <= 1 THEN 0
    ELSE MinibatchesIn(epochs[e - 1]) + MinibatchesBefore(epochs, e - 1)

Least(S) == CHOOSE x \in S : \A y \in S : x <= y

\* C15: in ImageGan and UnrolledGan the cutoff is checked only after a whole
\* minibatch; an epoch ends with the first minibatch after which the counter
\* exceeds early_stop (> 0), or else after all its minibatches; the outer loop
\* still visits every epoch, the progress signal is given exactly
\* gan_epoch_num times, and train completes normally and sets trained.
C15_EarlyStopCutoff ==
    (last.op = "train" /\ env.variant \in {"ImageGan", "UnrolledGan"}) =>
        LET split == EpochsOf(last.log)
            epochs == split.epochs
            batches_num == env.num_points \div env.opts.batch_size
        IN  /\ last.exc = "none"
            /\ m.trained
            /\ split.rest = <<>>
            /\ Len(epochs) = env.opts.gan_epoch_num
            /\ Count(last.log, "bam") = env.opts.gan_epoch_num
            /\ \A e \in 1..Len(epochs) :
                  LET k == MinibatchesIn(epochs[e])
                      counter == MinibatchesBefore(epochs, e)
                      stops == {j \in 1..batches_num :
                                   env.opts.early_stop > 0 /\ counter + j > env.opts.early_stop}
                  IN  /\ UpdatesOf(epochs[e]) = Minibatches(env.opts, k)
                      /\ k = IF stops = {} THEN batches_num ELSE Least(stops)

C15_Witness ==
    /\ TrainReturned
    /\ env.variant = "ImageGan"
    /\ env.opts.early_stop = 1
    /\ env.opts.gan_epoch_num = 2
    /\ env.num_points \div env.opts.batch_size = 2
    /\ last.log = <<"d", "g", "d", "g", "bam", "d", "g", "bam">>

\* C18: the cutoff does not bound the total work.  The counter runs on across
\* the epochs and is compared only after a minibatch, so when it first exceeds
\* early_stop (> 0) in epoch e (from 0), every later epoch still processes
\* exactly one whole minibatch, and train processes
\* (early_stop + 1) + (gan_epoch_num - 1 - e) minibatches in all.
C18_CutoffDoesNotBoundWork ==
    (TrainReturned /\ CutoffActive /\ env.num_points \div env.opts.batch_size >= 1) =>
        LET epochs == EpochsOf(last.log).epochs
            batches_num == env.num_points \div env.opts.batch_size
            total == Count(last.log, "g") \div env.opts.g_steps
            triggered == {e \in 0..(env.opts.gan_epoch_num - 1) :
                             (e + 1) * batches_num > env.opts.early_stop}
        IN  IF triggered = {}
            THEN total = env.opts.gan_epoch_num * batches_num
            ELSE LET e == Least(triggered)
                 IN  /\ total = (env.opts.early_stop + 1) + (env.opts.gan_epoch_num - 1 - e)
                     /\ \A f \in (e + 2)..Len(epochs) :
                           UpdatesOf(epochs[f]) = Minibatch(env.opts)
                     /\ (e < env.opts.gan_epoch_num - 1) => total > env.opts.early_stop + 1

C18_Witness ==
    /\ TrainReturned
    /\ env.variant = "UnrolledGan"
    /\ env.opts.early_stop = 1
    /\ env.opts.gan_epoch_num = 2
    /\ env.num_points \div env.opts.batch_size = 2
    /\ env.opts.d_steps = 2
    /\ UpdatesOf(last.log) = <<"d", "d", "g", "d", "d", "g", "d", "d", "g">>

(***************************************************************************)
(* Properties of the feeds, checked under SpecTrain and Spec.              *)
(***************************************************************************)
UpdateOpNames == {"d_optim", "g_optim", "c_optim"}
InferenceOpNames == {"G", "c_training"}

FeedsTo(names) == SelectSeq(last.feeds, LAMBDA f : f.op \in names)

\* C16: in ImageGan every engine invocation that updates discriminator,
\* generator or classifier parameters is fed the mode flag with True, every
\* inference invocation (sample, the plot sampling inside train, the final
\* classifier evaluation) is fed it with False, and none omits it; every
\* update and every chunk of an inference call is among the recorded feeds.
C16_ModeFlagFed ==
    (env.variant = "ImageGan" /\ last.op \in {"train", "sample", "train_mixture_discriminator"}) =>
        /\ \A i \in 1..Len(last.feeds) :
              LET f == last.feeds[i]
              IN  /\ f.op \in UpdateOpNames \cup InferenceOpNames
                  /\ OpDeps("ImageGan", f.op) \subseteq FedNames(f.fd)
                  /\ "is_train" \in FedNames(f.fd)
                  /\ FedValue(f.fd, "is_train") =
                        IF f.op \in UpdateOpNames THEN "True" ELSE "False"
        /\ last.exc \notin {"TypeError", "InvalidArgumentError"}
        /\ Len(FeedsTo({"d_optim"})) = Count(last.log, "d")
        /\ Len(FeedsTo({"g_optim"})) = Count(last.log, "g")
        /\ Len(FeedsTo({"c_optim"})) = Count(last.log, "c")
        /\ Len(FeedsTo(InferenceOpNames)) =
              Len(last.evals) + Count(last.log, "plot")
                                  * BatchesNum(ImagePlotRows, env.opts.tf_run_batch_size)

C16_Witness ==
    /\ env.variant = "ImageGan"
    /\ TrainReturned
    /\ Count(last.log, "plot") >= 1
    /\ \E i, j \in 1..Len(last.feeds) :
          /\ last.feeds[i].op = "g_optim"
          /\ FedValue(last.feeds[i].fd, "is_train") = "True"
          /\ last.feeds[j].op = "G"
          /\ FedValue(last.feeds[j].fd, "is_train") = "False"

(***************************************************************************)
(* Properties of the periodic plot of ToyGan, checked under SpecPlot.      *)
(***************************************************************************)
ToyTrainReturned == TrainReturned /\ env.variant = "ToyGan"

\* The minibatch counter when step i of the log runs.
CounterAt(log, i) == Count(SubSeq(log, 1, i), "g") \div env.opts.g_steps

PlotSteps(log) == {i \in 1..Len(log) : log[i] = "plot"}

\* Every plot follows the minibatch that brought the counter to a multiple of
\* the period, and every such minibatch is followed by a plot.
PlotsAtMultiples(log) ==
    /\ \A i \in PlotSteps(log) :
          /\ i > 1
          /\ log[i - 1] = "g"
          /\ CounterAt(log, i) % ToyPlotEvery = 0
    /\ Cardinality(PlotSteps(log)) = CounterAt(log, Len(log)) \div ToyPlotEvery

\* Every plot samples the generator through _run_batch on the first
\* ToyPlotRows vectors of the noise cache, in order.
PlotsSampleNoise ==
    LET fed == FeedsTo({"G"})
    IN  Concat([i \in 1..Len(fed) |-> Array(2, FedValue(fed[i].fd, "noise"))])
            = Concat([p \in 1..Count(last.log, "plot") |-> Array(2, Iota(ToyPlotRows))])

\* C17 as stated: in every configuration ToyGan plots whenever the minibatch
\* counter reaches a multiple of 100, and at no other counter value.
C17_PlotEveryHundred ==
    ToyTrainReturned => PlotsAtMultiples(last.log) /\ PlotsSampleNoise

\* C17 amended: ToyGan plots at the multiples of 100 of the minibatch counter
\* only when opts['verbose'] is true; with verbose false it never plots.
C17_PlotEveryHundredIfVerbose ==
    ToyTrainReturned =>
        IF env.opts.verbose
        THEN PlotsAtMultiples(last.log) /\ PlotsSampleNoise
        ELSE PlotSteps(last.log) = {} /\ FeedsTo({"G"}) = <<>>

C17_Witness ==
    /\ ToyTrainReturned
    /\ env.opts.verbose
    /\ Count(last.log, "plot") = 2
    /\ CounterAt(last.log, Len(last.log)) > 2 * ToyPlotEvery

(***************************************************************************)
(* Properties of trainings that draw no minibatch, checked under           *)
(* SpecTrain.                                                              *)
(***************************************************************************)
NoMinibatch == env.opts.batch_size > env.num_points \/ env.opts.gan_epoch_num = 0

\* C19: when batch_size > num_points or gan_epoch_num = 0, train runs no
\* discriminator and no generator update and hands nothing to the engine, yet
\* it returns normally and sets trained; a following sample call passes the
\* trained gate and returns its num outputs.
C19_TrainedWithoutUpdates ==
    NoMinibatch =>
        /\ last.op = "train" =>
              /\ last.exc = "none"
              /\ m.trained
              /\ Count(last.log, "d") = 0
              /\ Count(last.log, "g") = 0
              /\ last.feeds = <<>>
              /\ Count(last.log, "bam") = env.opts.gan_epoch_num
        /\ (last.op = "sample" /\ env.train_done) =>
              /\ m.trained
              /\ last.exc # ExcUntrained
              /\ last.arg >= 1 => /\ last.exc = "none"
                                  /\ Len(last.val.data) = last.arg

C19_Witness ==
    /\ env.opts.batch_size > env.num_points
    /\ env.opts.gan_epoch_num >= 1
    /\ env.train_done
    /\ last.op = "sample"
    /\ last.arg = 2
    /\ last.exc = "none"
    /\ Len(last.val.data) = 2

(***************************************************************************)
(* Properties of the feeds of UnrolledGan, checked under Spec.             *)
(***************************************************************************)
\* C20: in UnrolledGan every key of every feed handed to the engine is a
\* placeholder of the graph, and the final classifier evaluation of
\* train_mixture_discriminator, once reached, returns one output per real
\* point.
C20_UnrolledFeedsArePlaceholders ==
    env.variant = "UnrolledGan" =>
        /\ \A i \in 1..Len(last.feeds) :
              \A k \in 1..Len(last.feeds[i].fd) :
                  last.feeds[i].fd[k][1].kind = "placeholder"
        /\ (last.op = "train_mixture_discriminator" /\ last.evals # <<>>) =>
              /\ last.exc = "none"
              /\ Len(last.val.data) = env.num_points

====
